---- MODULE Spec2Model ----
(***************************************************************************)
(* A model of celery/app/builtins.py: the built-in canvas tasks            *)
(* celery.group, celery.chain, celery.chord and celery.chord_unlock.       *)
(*                                                                         *)
(* Python values are encoded as follows.  None is the empty tuple and an   *)
(* optional value x is the one-element tuple <<x>>.  Task ids are natural  *)
(* numbers: the ids a caller pre-assigns are 1..MaxHeader+1 and the k-th   *)
(* call of uuid() returns MaxHeader + 1 + k.  A Signature is a record      *)
(* [task, args, options]; a broker message is a record.                    *)
(***************************************************************************)
EXTENDS Integers, Sequences, FiniteSets, TLC

\* ------------------------------------------------------------- bounds
\* Largest number of members of a group / chord header.
MaxHeader == 2
\* Largest bounded max_retries a chord is registered with.
MaxRetries == 2
\* Largest number of "not ready" polls explored for one chord.
MaxPolls == 3
\* Largest number of steps of a chain.
MaxChain == 3
\* Largest number of members of a group or chord header that is run eagerly.
MaxEager == 3

VARIABLES
    uuids,        \* number of uuid() calls made so far
    groupTasks,   \* the member signatures the group was built from
    backend,      \* the result store: task id -> [status, result]
    groupQueue,   \* published celery.group messages not yet run by a worker
    members,      \* member messages published by Group.run, in publication order
    groupResult,  \* what Group.apply_async returned (None before the call)
    producerLog,  \* Group.run: what it did with the producer, in order
    groupRunState,\* Group.run: "IDLE", "DONE" (returned) or "RAISED"
    header,       \* Chord.run: the header's member signatures, options tagged
    registered,   \* Chord.run: the arguments on_chord_apply was called with
    native,       \* GroupResult.supports_native_join of the backend
    unlockQueue,  \* scheduled celery.chord_unlock messages
    unlockState,  \* "IDLE", "POLLING", "DONE", "RAISED", "EXHAUSTED"
    delayed,      \* body submissions made by unlock_chord, oldest first
    polls,        \* number of unlock_chord invocations so far
    unready,      \* number of those invocations made while a member was not ready
    retried,      \* number of retry messages unlock_chord has published
    chordLog,     \* Chord.run: the calls it made, in the order it made them
    chainInput,   \* the arguments Chain.apply_async / Chain.apply was called with
    prepared,     \* Chain.apply_async: the prepared tasks and results
    chainQueue,   \* messages published by Chain.apply_async
    chainReturn,  \* the result handle the chain call returned (None before)
    chainState,   \* "IDLE", "RETURNED" (apply_async), "APPLIED" (apply), "RAISED"
    chordInput,   \* the arguments Chord.apply_async was called with
    chordQueue,   \* published celery.chord messages not yet run by a worker
    chordSent,    \* every celery.chord message published so far
    chordReturn,  \* the result handle Chord.apply_async returned (None before)
    eagerInput,   \* the arguments Group.apply / Chord.apply was called with
    eagerLog,     \* the tasks run in the caller's thread, in the order they ran
    eagerReturn,  \* what Group.apply / Chord.apply returned (None before)
    eagerState    \* "IDLE", "DONE" (returned) or "RAISED"

canvasVars == <<uuids, groupTasks, backend, groupQueue, members, groupResult,
                producerLog, groupRunState>>
chordVars == <<header, registered, native, unlockQueue, unlockState, delayed,
               polls, unready, retried, chordLog>>
chainVars == <<chainInput, prepared, chainQueue, chainReturn, chainState>>
chordCallVars == <<chordInput, chordQueue, chordSent, chordReturn>>
eagerVars == <<eagerInput, eagerLog, eagerReturn, eagerState>>
vars == <<canvasVars, chordVars, chainVars, chordCallVars, eagerVars>>

\* ------------------------------------------------------------- values
None == <<>>
Some(x) == <<x>>
The(opt) == opt[1]

PENDING == "PENDING"
SUCCESS == "SUCCESS"
FAILURE == "FAILURE"
READY_STATES == {SUCCESS, FAILURE}

\* What a member may return, and the exception instance a failed member stores.
Values == {"v1", "v2"}
Exc == "exc"
\* The result a store holds for a task that has not finished (Python's None).
NoResult == "None"

\* Ids a caller pre-assigns: 1..MaxHeader to members, MaxHeader + 1 to a group.
CallerIds == 1..MaxHeader
CallerGroupId == MaxHeader + 1

\* Ids a caller gives a chord (the task_id of apply_async) and a chord's body.
CallerChordId == 0 - MaxHeader
CallerBodyId == 0 - CallerGroupId

\* uuid(): the k-th call returns an id no caller pre-assigns.
uuid(k) == CallerGroupId + k

IdSpace == 1..(3 * MaxHeader + 4)

\* A Signature: the task name, the bound args, the options, and for a group its
\* member signatures, for a chord its header and body.  A link is kept as the
\* task id of the linked signature.
NoOptions == [task_id |-> None, group_id |-> None, chord |-> None, link |-> <<>>]
NoKwargs == [tasks |-> <<>>, header |-> None, body |-> None]
Sig(name, args, tid) ==
    [task |-> name, args |-> args, options |-> [NoOptions EXCEPT !.task_id = tid],
     kwargs |-> NoKwargs]

\* Signature.clone(partial_args): a copy with partial_args prepended, options kept.
clone(sig, partial_args) == [sig EXCEPT !.args = partial_args \o sig.args]

\* The tasks a caller's signatures name (a chain step at position i names
\* TaskNames[i]) and what each computes from the positional arguments it is
\* called with; a chord's body is called with one argument, a list.
TaskNames == <<"s1", "s2", "s3", "s4", "s5">>

RECURSIVE Sum(_)
Sum(args) == IF args = <<>> THEN 0 ELSE Head(args) + Sum(Tail(args))

TaskFn(name, args) ==
    CASE name = "s1" -> Sum(args) + 1
      [] name = "s2" -> 2 * Sum(args)
      [] name = "s3" -> Sum(args) + 3
      [] name = "s4" -> 3 * Sum(args)
      [] name = "inc" -> Sum(args) + 1
      [] name = "body" -> Sum(args[1])
      [] OTHER -> Sum(args) + 5

\* Signature.apply(args): run the task here with args before the bound args.
Run(sig, args) == TaskFn(sig.task, args \o sig.args)

\* ------------------------------------------------------------- Group
\* A faulty prepare_member: the generated id is not stored in the member's options.
prepare_member_unsaved(task, group_id, u) ==
    LET fresh == task.options.task_id = None
        tid == IF fresh THEN uuid(u + 1) ELSE The(task.options.task_id)
    IN  [task |-> [task EXCEPT !.options.group_id = Some(group_id)],
         result |-> tid,
         u |-> IF fresh THEN u + 1 ELSE u]

\* prepare_member: tag the member with the group id, reuse its task id or
\* generate one, and build its AsyncResult (here: the id).  u counts uuid() calls.
prepare_member(task, group_id, u) ==
    LET fresh == task.options.task_id = None
        tid == IF fresh THEN uuid(u + 1) ELSE The(task.options.task_id)
    IN  [task |-> [task EXCEPT !.options.group_id = Some(group_id),
                               !.options.task_id = Some(tid)],
         result |-> tid,
         u |-> IF fresh THEN u + 1 ELSE u]

RECURSIVE prepare_members(_, _, _)
prepare_members(tasks, group_id, u) ==
    IF tasks = <<>>
    THEN [tasks |-> <<>>, results |-> <<>>, u |-> u]
    ELSE LET m == prepare_member(Head(tasks), group_id, u)
             rest == prepare_members(Tail(tasks), group_id, m.u)
         IN  [tasks |-> <<m.task>> \o rest.tasks,
              results |-> <<m.result>> \o rest.results,
              u |-> rest.u]

\* Group.prepare.  options.setdefault('task_id', uuid()) evaluates uuid() whether
\* or not the caller gave a task_id.
prepare(task_id, tasks, args, u) ==
    LET group_id == IF task_id = None THEN uuid(u + 1) ELSE The(task_id)
        ms == prepare_members(tasks, group_id, u + 1)
    IN  [tasks |-> ms.tasks,
         result |-> [id |-> group_id, results |-> ms.results],
         group_id |-> group_id,
         args |-> args,
         u |-> ms.u]

\* Task.apply_async of one member signature: the message that reaches the broker.
\* A signature without a task_id option is published under a fresh id.
MemberMessage(sig, group_id, u) ==
    [task |-> sig.task,
     args |-> sig.args,
     task_id |-> IF sig.options.task_id = None THEN uuid(u + 1)
                 ELSE The(sig.options.task_id),
     group_id |-> group_id,
     chord |-> sig.options.chord]

RECURSIVE run_members(_, _, _, _)
run_members(tasks, group_id, partial_args, u) ==
    IF tasks = <<>>
    THEN [msgs |-> <<>>, u |-> u]
    ELSE LET sig == clone(Head(tasks), partial_args)
             msg == MemberMessage(sig, group_id, u)
             u1 == IF sig.options.task_id = None THEN u + 1 ELSE u
             rest == run_members(Tail(tasks), group_id, partial_args, u1)
         IN  [msgs |-> <<msg>> \o rest.msgs, u |-> rest.u]

\* Group.apply_async, not eager: prepare, publish the celery.group task with
\* (list(tasks), result.serializable(), gid, args), return the GroupResult.
group_apply_async(tasks, partial_args, task_id, u) ==
    LET p == prepare(task_id, tasks, partial_args, u)
    IN  [msg |-> [tasks |-> p.tasks, result |-> p.result,
                  group_id |-> p.group_id, partial_args |-> p.args],
         result |-> p.result,
         u |-> p.u]

\* The signatures a caller may put in a group: each with no task id or with a
\* pre-assigned one, pre-assigned ids being distinct.
MemberInputs ==
    {s \in UNION {[1..n -> {Sig("add", <<>>, t) : t \in {None} \cup {Some(c) : c \in CallerIds}}]
                  : n \in 1..MaxHeader} :
        \A i, j \in DOMAIN s :
            (i # j /\ s[i].options.task_id # None) => s[i].options.task_id # s[j].options.task_id}

GroupApplyAsync ==
    /\ groupResult = None
    /\ registered = None
    /\ \E tasks \in MemberInputs, partial_args \in {<<>>, <<1>>},
          task_id \in {None, Some(CallerGroupId)} :
          LET r == group_apply_async(tasks, partial_args, task_id, uuids)
          IN  /\ groupTasks' = tasks
              /\ groupQueue' = Append(groupQueue, r.msg)
              /\ groupResult' = Some(r.result)
              /\ uuids' = r.u
    /\ UNCHANGED <<backend, members, producerLog, groupRunState>>
    /\ UNCHANGED chordVars
    /\ UNCHANGED chainVars
    /\ UNCHANGED chordCallVars
    /\ UNCHANGED eagerVars

\* Where a Group.run may fail: 0 when taking the producer raises, j when the
\* j-th apply_async raises, NoFailure when nothing raises.
NoFailure == 0 - 1

\* A faulty Group.run: a submission that raises is skipped and the members
\* after it are still published.
group_run_skip(tasks, result, group_id, partial_args, failAt, u) ==
    IF failAt = 0
    THEN [ret |-> None, msgs |-> <<>>, log |-> <<"acquire raised">>,
          raised |-> TRUE, u |-> u]
    ELSE LET n == Len(tasks)
             failed == failAt \in 1..n
             r == run_members(tasks, group_id, partial_args, u)
             kept == IF failed
                     THEN SubSeq(r.msgs, 1, failAt - 1) \o SubSeq(r.msgs, failAt + 1, n)
                     ELSE r.msgs
         IN  [ret |-> IF failed THEN None ELSE Some(result),
              msgs |-> kept,
              log |-> <<"acquire">> \o [i \in 1..Len(kept) |-> "publish"]
                          \o (IF failed THEN <<"publish raised">> ELSE <<>>)
                          \o <<"release">>,
              raised |-> failed,
              u |-> r.u]

\* Group.run, not eager: take one producer, publish the members in order with
\* it, give it back when the block is left (also by an exception), return the
\* result.  A submission that raises ends the list comprehension.
group_run(tasks, result, group_id, partial_args, failAt, u) ==
    IF failAt = 0
    THEN [ret |-> None, msgs |-> <<>>, log |-> <<"acquire raised">>,
          raised |-> TRUE, u |-> u]
    ELSE LET n == Len(tasks)
             failed == failAt \in 1..n
             ok == IF failed THEN failAt - 1 ELSE n
             r == run_members(SubSeq(tasks, 1, ok), group_id, partial_args, u)
         IN  [ret |-> IF failed THEN None ELSE Some(result),
              msgs |-> r.msgs,
              log |-> <<"acquire">> \o [i \in 1..ok |-> "publish"]
                          \o (IF failed THEN <<"publish raised">> ELSE <<>>)
                          \o <<"release">>,
              raised |-> failed,
              u |-> r.u]

\* Group.run in a worker, not eager, failing at one of the given points or not
\* at all.
GroupRunWith(failPoints) ==
    /\ groupQueue # <<>>
    /\ \E failAt \in failPoints \cup {NoFailure} :
          LET msg == Head(groupQueue)
              r == group_run(msg.tasks, msg.result, msg.group_id, msg.partial_args,
                             failAt, uuids)
          IN  /\ members' = members \o r.msgs
              /\ producerLog' = producerLog \o r.log
              /\ groupRunState' = IF r.raised THEN "RAISED" ELSE "DONE"
              /\ uuids' = r.u
    /\ groupQueue' = Tail(groupQueue)
    /\ UNCHANGED <<groupTasks, backend, groupResult>>
    /\ UNCHANGED chordVars
    /\ UNCHANGED chainVars
    /\ UNCHANGED chordCallVars
    /\ UNCHANGED eagerVars

\* Group.run with a broker that accepts every message.
GroupRun == GroupRunWith({})

\* Group.run with a broker that may refuse the producer or any one message.
GroupRunFallible == GroupRunWith(0..MaxHeader)

\* A worker finishes member i, in any order, and stores its outcome.
MemberComplete(i, status, result) ==
    /\ i \in 1..Len(members)
    /\ backend[members[i].task_id].status = PENDING
    /\ backend' = [backend EXCEPT ![members[i].task_id] =
                       [status |-> status, result |-> result]]
    /\ UNCHANGED <<uuids, groupTasks, groupQueue, members, groupResult,
                   producerLog, groupRunState>>
    /\ UNCHANGED chordVars
    /\ UNCHANGED chainVars
    /\ UNCHANGED chordCallVars
    /\ UNCHANGED eagerVars

MemberSucceeds == \E i \in 1..MaxHeader, v \in Values : MemberComplete(i, SUCCESS, v)
MemberFails == \E i \in 1..MaxHeader : MemberComplete(i, FAILURE, Exc)

\* ------------------------------------------------------------- results
\* GroupResult.ready(): every child is ready.
ready(results) == \A i \in 1..Len(results) : backend[results[i]].status \in READY_STATES

\* GroupResult.join(propagate): fetch every child in order; a failed child raises
\* when propagate is set and otherwise contributes its exception as its value.
RECURSIVE join(_, _)
join(results, propagate) ==
    IF results = <<>>
    THEN [raised |-> FALSE, value |-> <<>>]
    ELSE LET meta == backend[Head(results)]
         IN  IF propagate /\ meta.status = FAILURE
             THEN [raised |-> TRUE, value |-> <<>>]
             ELSE LET rest == join(Tail(results), propagate)
                  IN  IF rest.raised THEN rest
                      ELSE [raised |-> FALSE, value |-> <<meta.result>> \o rest.value]

\* GroupResult.join_native(propagate): one bulk fetch keyed by id, each value put
\* at the position of its id in the result list.
join_native(results, propagate) ==
    LET ids == {results[i] : i \in 1..Len(results)}
        pos(id) == CHOOSE i \in 1..Len(results) : results[i] = id
        acc == [i \in 1..Len(results) |->
                   backend[CHOOSE id \in ids : pos(id) = i].result]
    IN  IF propagate /\ \E id \in ids : backend[id].status = FAILURE
        THEN [raised |-> TRUE, value |-> <<>>]
        ELSE [raised |-> FALSE, value |-> acc]

\* Task.retry(countdown, max_retries) of celery.chord_unlock, whose own max_retries
\* is None: republish the same request with retries + 1 unless that exceeds a
\* bounded max_retries.
retry(msg, countdown, max_retries) ==
    LET n == msg.retries + 1
    IN  IF max_retries # None /\ n > The(max_retries)
        THEN [exceeded |-> TRUE, msg |-> msg]
        ELSE [exceeded |-> FALSE,
              msg |-> [msg EXCEPT !.retries = n, !.countdown = countdown]]

\* ------------------------------------------------------------- chord_unlock
\* Faulty variants of unlock_chord, each with one slip.
\* The callback is delayed as soon as any member is ready.
unlock_chord_any(group_id, callback, interval, propagate, max_retries, result) ==
    IF \E i \in 1..Len(result) : backend[result[i]].status \in READY_STATES
    THEN LET joined == join(result, FALSE)
         IN  [op |-> "delay", task |-> callback, args |-> <<joined.value>>]
    ELSE [op |-> "retry", countdown |-> interval, max_retries |-> max_retries]

\* A join that raises is answered with a retry.
unlock_chord_retries(group_id, callback, interval, propagate, max_retries, result) ==
    IF ready(result)
    THEN LET joined == IF native THEN join_native(result, propagate)
                       ELSE join(result, propagate)
         IN  IF joined.raised
             THEN [op |-> "retry", countdown |-> interval, max_retries |-> max_retries]
             ELSE [op |-> "delay", task |-> callback, args |-> <<joined.value>>]
    ELSE [op |-> "retry", countdown |-> interval, max_retries |-> max_retries]

\* retry() is called without countdown=interval.
unlock_chord_default_countdown(group_id, callback, interval, propagate, max_retries, result) ==
    IF ready(result)
    THEN LET joined == IF native THEN join_native(result, propagate)
                       ELSE join(result, propagate)
         IN  IF joined.raised
             THEN [op |-> "raise"]
             ELSE [op |-> "delay", task |-> callback, args |-> <<joined.value>>]
    ELSE [op |-> "retry", countdown |-> 1, max_retries |-> max_retries]

\* retry() is called without max_retries=max_retries.
unlock_chord_unbounded(group_id, callback, interval, propagate, max_retries, result) ==
    IF ready(result)
    THEN LET joined == IF native THEN join_native(result, propagate)
                       ELSE join(result, propagate)
         IN  IF joined.raised
             THEN [op |-> "raise"]
             ELSE [op |-> "delay", task |-> callback, args |-> <<joined.value>>]
    ELSE [op |-> "retry", countdown |-> interval, max_retries |-> None]

\* The else branch does not retry.
unlock_chord_once(group_id, callback, interval, propagate, max_retries, result) ==
    IF ready(result)
    THEN LET joined == IF native THEN join_native(result, propagate)
                       ELSE join(result, propagate)
         IN  IF joined.raised
             THEN [op |-> "raise"]
             ELSE [op |-> "delay", task |-> callback, args |-> <<joined.value>>]
    ELSE [op |-> "raise"]

\* j() is called without propagate=propagate (join's default is to propagate).
unlock_chord_propagate(group_id, callback, interval, propagate, max_retries, result) ==
    IF ready(result)
    THEN LET joined == IF native THEN join_native(result, TRUE) ELSE join(result, TRUE)
         IN  IF joined.raised
             THEN [op |-> "raise"]
             ELSE [op |-> "delay", task |-> callback, args |-> <<joined.value>>]
    ELSE [op |-> "retry", countdown |-> interval, max_retries |-> max_retries]

\* One invocation of unlock_chord: what it does, as a value: delay the callback
\* with the joined results, let the join's exception out, or retry.
unlock_chord(group_id, callback, interval, propagate, max_retries, result) ==
    IF ready(result)
    THEN LET joined == IF native THEN join_native(result, propagate)
                       ELSE join(result, propagate)
         IN  IF joined.raised
             THEN [op |-> "raise"]
             ELSE [op |-> "delay", task |-> callback, args |-> <<joined.value>>]
    ELSE [op |-> "retry", countdown |-> interval, max_retries |-> max_retries]

\* A worker runs the scheduled celery.chord_unlock message.
UnlockChord ==
    /\ unlockQueue # <<>>
    /\ LET msg == Head(unlockQueue)
           notReady == \E i \in 1..Len(members) :
                           backend[members[i].task_id].status = PENDING
           eff == unlock_chord(msg.group_id, msg.callback, msg.interval,
                               msg.propagate, msg.max_retries, msg.result)
       IN  /\ polls' = polls + 1
           /\ unready' = IF notReady \/ Len(members) < Len(header)
                         THEN unready + 1 ELSE unready
           /\ CASE eff.op = "delay" ->
                      /\ delayed' = Append(delayed, [task |-> eff.task, args |-> eff.args])
                      /\ unlockQueue' = Tail(unlockQueue)
                      /\ unlockState' = "DONE"
                      /\ UNCHANGED retried
                [] eff.op = "raise" ->
                      /\ unlockQueue' = Tail(unlockQueue)
                      /\ unlockState' = "RAISED"
                      /\ UNCHANGED <<delayed, retried>>
                [] eff.op = "retry" ->
                      LET r == retry(msg, eff.countdown, eff.max_retries)
                      IN  IF r.exceeded
                          THEN /\ unlockQueue' = Tail(unlockQueue)
                               /\ unlockState' = "EXHAUSTED"
                               /\ UNCHANGED <<delayed, retried>>
                          ELSE /\ msg.retries < MaxPolls
                               /\ unlockQueue' = Append(Tail(unlockQueue), r.msg)
                               /\ retried' = retried + 1
                               /\ UNCHANGED <<delayed, unlockState>>
    /\ UNCHANGED <<header, registered, native, chordLog>>
    /\ UNCHANGED canvasVars
    /\ UNCHANGED chainVars
    /\ UNCHANGED chordCallVars
    /\ UNCHANGED eagerVars

\* ------------------------------------------------------------- Chord
Body == Sig("body", <<>>, None)

\* A faulty tagging: every member gets a generated task id, also one that has
\* an id already.
RECURSIVE tag_header_fresh(_, _, _, _)
tag_header_fresh(tasks, body, group_id, u) ==
    IF tasks = <<>>
    THEN [tasks |-> <<>>, r |-> <<>>, u |-> u]
    ELSE LET task == Head(tasks)
             tid == uuid(u + 1)
             rest == tag_header_fresh(Tail(tasks), body, group_id, u + 1)
         IN  [tasks |-> <<[task EXCEPT !.options.task_id = Some(tid),
                                       !.options.chord = Some(body),
                                       !.options.group_id = Some(group_id)]>>
                        \o rest.tasks,
              r |-> <<tid>> \o rest.r,
              u |-> rest.u]

\* Chord.run, the loop over header.tasks: reuse or generate each member's task id,
\* tag the member with the body and the group id, collect its AsyncResult.
RECURSIVE tag_header(_, _, _, _)
tag_header(tasks, body, group_id, u) ==
    IF tasks = <<>>
    THEN [tasks |-> <<>>, r |-> <<>>, u |-> u]
    ELSE LET task == Head(tasks)
             fresh == task.options.task_id = None
             tid == IF fresh THEN uuid(u + 1) ELSE The(task.options.task_id)
             rest == tag_header(Tail(tasks), body, group_id, IF fresh THEN u + 1 ELSE u)
         IN  [tasks |-> <<[task EXCEPT !.options.task_id = Some(tid),
                                       !.options.chord = Some(body),
                                       !.options.group_id = Some(group_id)]>>
                        \o rest.tasks,
              r |-> <<tid>> \o rest.r,
              u |-> rest.u]

\* backend.on_chord_apply of a backend without native chord support: schedule
\* celery.chord_unlock after `interval` seconds with the ids of the results.
on_chord_apply(group_id, body, interval, max_retries, propagate, result) ==
    [group_id |-> group_id, callback |-> body, interval |-> interval,
     propagate |-> propagate, max_retries |-> max_retries, result |-> result,
     retries |-> 0, countdown |-> interval]

\* Chord.run, not eager, on the given header and body: tag the header, call
\* on_chord_apply, then submit the header as a group under the chord's group
\* id.  submitted tells whether publishing the header went through; when it
\* did not, Chord.run raises after on_chord_apply has returned.
ChordRunOn(tasks, body, partial_args, interval, propagate, max_retries, submitted) ==
    LET group_id == uuid(uuids + 1)
        t == tag_header(tasks, body, group_id, uuids + 1)
        msg == on_chord_apply(group_id, body, interval, max_retries, propagate, t.r)
        g == group_apply_async(t.tasks, partial_args, Some(group_id), t.u)
    IN  /\ groupTasks' = tasks
        /\ header' = t.tasks
        /\ registered' = Some(msg)
        /\ unlockQueue' = Append(unlockQueue, msg)
        /\ unlockState' = "POLLING"
        /\ uuids' = g.u
        /\ IF submitted
           THEN /\ groupQueue' = Append(groupQueue, g.msg)
                /\ groupResult' = Some(g.result)
                /\ chordLog' = chordLog \o <<"on_chord_apply", "header">>
           ELSE /\ UNCHANGED <<groupQueue, groupResult>>
                /\ chordLog' = chordLog \o <<"on_chord_apply", "header raised">>

\* Chord.run, not eager, for a chord whose interval and max_retries are drawn
\* from the given sets.
ChordRunWith(intervals, retryChoices) ==
    /\ registered = None
    /\ groupResult = None
    /\ \E tasks \in MemberInputs, interval \in intervals, propagate \in BOOLEAN,
          max_retries \in retryChoices, submitted \in BOOLEAN :
          ChordRunOn(tasks, Body, <<>>, interval, propagate, max_retries, submitted)
    /\ UNCHANGED <<backend, members, producerLog, groupRunState>>
    /\ UNCHANGED <<native, delayed, polls, unready, retried>>
    /\ UNCHANGED chainVars
    /\ UNCHANGED chordCallVars
    /\ UNCHANGED eagerVars

ChordRun == ChordRunWith({1, 2}, {None} \cup {Some(n) : n \in 0..MaxRetries})

\* The chords whose detector may retry for ever (max_retries=None, the default).
ChordRunUnbounded == ChordRunWith({1}, {None})

\* ------------------------------------------------------------- Chain
\* group(member) and chord(header, body=..., task_id=...) signatures.
GroupSig(member, tid) ==
    [task |-> "celery.group", args |-> <<>>,
     options |-> [NoOptions EXCEPT !.task_id = tid],
     kwargs |-> [NoKwargs EXCEPT !.tasks = <<member>>]]

ChordSig(header_sig, body_sig, tid) ==
    [task |-> "celery.chord", args |-> <<>>,
     options |-> [NoOptions EXCEPT !.task_id = Some(tid)],
     kwargs |-> [NoKwargs EXCEPT !.header = Some(header_sig), !.body = Some(body_sig)]]

\* isinstance(task, group)
IsGroup(sig) == sig.task = "celery.group"

\* Signature.link: add the callback unless it is there already.
link(sig, ref) ==
    IF \E k \in 1..Len(sig.options.link) : sig.options.link[k] = ref
    THEN sig
    ELSE [sig EXCEPT !.options.link = Append(@, ref)]

\* The task id a caller pre-assigns to the step at position i of a chain: an id
\* that neither uuid() nor a caller's task_id override produces.
StepId(i) == 0 - i

\* The step a caller may put at position i of a chain: the plain task s_i or a
\* group of it, without a task id or with the pre-assigned id StepId(i).
StepChoices(i) ==
    {Sig(TaskNames[i], <<>>, t) : t \in {None, Some(StepId(i))}}
        \cup {GroupSig(Sig(TaskNames[i], <<>>, None), t) : t \in {None, Some(StepId(i))}}
PlainChoices(i) == {Sig(TaskNames[i], <<>>, t) : t \in {None, Some(StepId(i))}}

ChainInputs ==
    UNION {{s \in [1..n -> UNION {StepChoices(i) : i \in 1..n}] :
                \A i \in 1..n : s[i] \in StepChoices(i)} : n \in 0..MaxChain}
PlainChains ==
    UNION {{s \in [1..n -> UNION {PlainChoices(i) : i \in 1..n}] :
                \A i \in 1..n : s[i] \in PlainChoices(i)} : n \in 0..MaxChain}
ChainArgs == {<<>>, <<1>>}

\* A faulty pass of the loop: the step is never linked from its predecessor.
prepare_step_unlinked(args, st) ==
    LET step == Head(st.steps)
        cloned == IF st.i # 0 THEN clone(step, <<>>) ELSE clone(step, args)
        fresh == cloned.options.task_id = None
        tid == IF fresh THEN uuid(st.u + 1) ELSE The(cloned.options.task_id)
        task == [cloned EXCEPT !.options.task_id = Some(tid)]
        rest == Tail(st.steps)
        popped == IsGroup(task) /\ rest # <<>>
        next_step == IF IsGroup(task)
                     THEN (IF rest # <<>> THEN Some(Head(rest)) ELSE None)
                     ELSE st.next_step
        upgraded == IF next_step # None THEN ChordSig(task, The(next_step), tid) ELSE task
        n == Len(st.tasks)
    IN  [steps |-> IF popped THEN Tail(rest) ELSE rest,
         next_step |-> next_step,
         tasks |-> Append(st.tasks, upgraded),
         results |-> Append(st.results,
                        [id |-> tid,
                         parent |-> IF n = 0 THEN None ELSE Some(st.results[n].id)]),
         i |-> st.i + 1,
         u |-> IF fresh THEN st.u + 1 ELSE st.u]

\* Chain.prepare_steps: one pass of the while loop.  st holds the loop's locals:
\* steps, next_step, tasks, results, i and the uuid() count u; prev_task and
\* prev_res are the last elements of tasks and results.
prepare_step(args, st) ==
    LET step == Head(st.steps)
        cloned == IF st.i # 0 THEN clone(step, <<>>) ELSE clone(step, args)
        fresh == cloned.options.task_id = None
        tid == IF fresh THEN uuid(st.u + 1) ELSE The(cloned.options.task_id)
        task == [cloned EXCEPT !.options.task_id = Some(tid)]
        rest == Tail(st.steps)
        popped == IsGroup(task) /\ rest # <<>>
        next_step == IF IsGroup(task)
                     THEN (IF rest # <<>> THEN Some(Head(rest)) ELSE None)
                     ELSE st.next_step
        upgraded == IF next_step # None THEN ChordSig(task, The(next_step), tid) ELSE task
        n == Len(st.tasks)
    IN  [steps |-> IF popped THEN Tail(rest) ELSE rest,
         next_step |-> next_step,
         tasks |-> IF n = 0 THEN <<upgraded>>
                   ELSE Append([st.tasks EXCEPT ![n] = link(@, n + 1)], upgraded),
         results |-> Append(st.results,
                        [id |-> tid,
                         parent |-> IF n = 0 THEN None ELSE Some(st.results[n].id)]),
         i |-> st.i + 1,
         u |-> IF fresh THEN st.u + 1 ELSE st.u]

RECURSIVE prepare_loop(_, _)
prepare_loop(args, st) ==
    IF st.steps = <<>> THEN st ELSE prepare_loop(args, prepare_step(args, st))

prepare_steps(args, tasks, u) ==
    prepare_loop(args, [steps |-> tasks, next_step |-> None, tasks |-> <<>>,
                        results |-> <<>>, i |-> 0, u |-> u])

\* A faulty publication: every prepared step is published.
publish_all(tasks) == tasks

\* Chain.apply_async, the publication: tasks[0].apply_async().

publish(tasks) == <<tasks[1]>>

\* A faulty override: the caller's group_id, chord and task_id go onto every step.
set_last_all(p, group_id, chord_, task_id) ==
    LET n == Len(p.tasks)
        over(t) ==
            LET g == IF group_id # None THEN [t EXCEPT !.options.group_id = group_id] ELSE t
                c == IF chord_ # None THEN [g EXCEPT !.options.chord = chord_] ELSE g
            IN  IF task_id # None THEN [c EXCEPT !.options.task_id = task_id] ELSE c
    IN  [tasks |-> [k \in 1..n |-> over(p.tasks[k])],
         results |-> p.results,
         result |-> IF task_id # None THEN [id |-> The(task_id), parent |-> None]
                    ELSE p.results[n]]

\* Chain.apply_async, the overrides put on tasks[-1] and the result returned.
set_last(p, group_id, chord_, task_id) ==
    LET n == Len(p.tasks)
        g == IF group_id # None THEN [p.tasks[n] EXCEPT !.options.group_id = group_id]
             ELSE p.tasks[n]
        c == IF chord_ # None THEN [g EXCEPT !.options.chord = chord_] ELSE g
        t == IF task_id # None THEN [c EXCEPT !.options.task_id = task_id] ELSE c
    IN  [tasks |-> [p.tasks EXCEPT ![n] = t],
         results |-> p.results,
         result |-> IF task_id # None THEN [id |-> The(task_id), parent |-> None]
                    ELSE p.results[n]]

\* Chain.apply_async, not eager.  An empty chain raises IndexError at results[-1].
ChainApplyAsync ==
    /\ chainState = "IDLE"
    /\ \E tasks \in ChainInputs, args \in ChainArgs,
          group_id \in {None, Some(CallerGroupId)}, chord_ \in {None, Some(Body)},
          task_id \in {None, Some(CallerGroupId)} :
          LET p == prepare_steps(args, tasks, uuids)
          IN  /\ chainInput' = Some([tasks |-> tasks, args |-> args, group_id |-> group_id,
                                     chord |-> chord_, task_id |-> task_id])
              /\ uuids' = p.u
              /\ IF p.results = <<>>
                 THEN /\ chainState' = "RAISED"
                      /\ prepared' = [tasks |-> p.tasks, results |-> p.results]
                      /\ UNCHANGED <<chainQueue, chainReturn>>
                 ELSE LET q == set_last(p, group_id, chord_, task_id)
                      IN  /\ prepared' = [tasks |-> q.tasks, results |-> q.results]
                          /\ chainQueue' = chainQueue \o publish(q.tasks)
                          /\ chainReturn' = Some(q.result)
                          /\ chainState' = "RETURNED"
    /\ UNCHANGED <<groupTasks, backend, groupQueue, members, groupResult,
                   producerLog, groupRunState>>
    /\ UNCHANGED chordVars
    /\ UNCHANGED chordCallVars
    /\ UNCHANGED eagerVars

\* Chain.apply: run the steps here, one after the other.  The result of a step is
\* [value, parent]; the args the chain was applied with are not used.
RECURSIVE apply_steps(_, _)
apply_steps(tasks, prev) ==
    IF tasks = <<>>
    THEN prev
    ELSE LET task == clone(Head(tasks), <<>>)
             res == [value |-> Run(task, IF prev # None THEN <<The(prev).value>> ELSE <<>>),
                     parent |-> prev]
         IN  apply_steps(Tail(tasks), Some(res))

chain_apply(args, tasks) == apply_steps(tasks, None)

ChainApply ==
    /\ chainState = "IDLE"
    /\ \E tasks \in PlainChains, args \in ChainArgs :
          /\ chainInput' = Some([tasks |-> tasks, args |-> args, group_id |-> None,
                                 chord |-> None, task_id |-> None])
          /\ chainReturn' = chain_apply(args, tasks)
    /\ chainState' = "APPLIED"
    /\ UNCHANGED <<prepared, chainQueue>>
    /\ UNCHANGED canvasVars
    /\ UNCHANGED chordVars
    /\ UNCHANGED chordCallVars
    /\ UNCHANGED eagerVars

\* ------------------------------------------------------------- Chord.apply_async
\* A faulty Chord.apply_async: the body's task id is overwritten with the
\* task_id given or a uuid(), also when the body has an id already.
chord_apply_async_overwrite(args, header_, body, task_id, group_id, chord_, u) ==
    LET g == IF group_id # None THEN [body EXCEPT !.options.group_id = group_id] ELSE body
        c == IF chord_ # None THEN [g EXCEPT !.options.chord = chord_] ELSE g
        u1 == IF task_id = None THEN u + 1 ELSE u
        callback_id == IF task_id = None THEN uuid(u1) ELSE The(task_id)
        b == [c EXCEPT !.options.task_id = Some(callback_id)]
        parent == uuid(u1 + 1)
    IN  [published |-> <<[task_id |-> parent, header |-> header_, body |-> b,
                          args |-> args]>>,
         result |-> [id |-> callback_id, parent |-> Some(parent)],
         u |-> u1 + 1]

\* Chord.apply_async, not eager: the overrides go onto the body, the body gets
\* its task id (its own, else the task_id given, else a uuid(), which `or` calls
\* only when no task_id is given), one celery.chord message is published under
\* an id of its own, and the body's AsyncResult is returned with the published
\* task's AsyncResult as parent.
chord_apply_async(args, header_, body, task_id, group_id, chord_, u) ==
    LET g == IF group_id # None THEN [body EXCEPT !.options.group_id = group_id] ELSE body
        c == IF chord_ # None THEN [g EXCEPT !.options.chord = chord_] ELSE g
        u1 == IF task_id = None THEN u + 1 ELSE u
        default == IF task_id = None THEN uuid(u1) ELSE The(task_id)
        callback_id == IF c.options.task_id = None THEN default
                       ELSE The(c.options.task_id)
        b == [c EXCEPT !.options.task_id = Some(callback_id)]
        parent == uuid(u1 + 1)
    IN  [published |-> <<[task_id |-> parent, header |-> header_, body |-> b,
                          args |-> args]>>,
         result |-> [id |-> callback_id, parent |-> Some(parent)],
         u |-> u1 + 1]

\* The bodies a caller may give a chord: without a task id or with one, and the
\* chord a caller may name as the chord the body itself is a member of.
BodyChoices == {Body, [Body EXCEPT !.options.task_id = Some(CallerBodyId)]}
OuterBody == Sig("outer", <<>>, None)

ChordApplyAsync ==
    /\ chordInput = None
    /\ registered = None
    /\ groupResult = None
    /\ \E tasks \in MemberInputs, body \in BodyChoices,
          task_id \in {None, Some(CallerChordId)},
          group_id \in {None, Some(CallerGroupId)},
          chord_ \in {None, Some(OuterBody)} :
          LET r == chord_apply_async(<<>>, tasks, body, task_id, group_id, chord_, uuids)
          IN  /\ chordInput' = Some([header |-> tasks, body |-> body, task_id |-> task_id,
                                     group_id |-> group_id, chord |-> chord_])
              /\ chordQueue' = chordQueue \o r.published
              /\ chordSent' = chordSent \o r.published
              /\ chordReturn' = Some(r.result)
              /\ uuids' = r.u
    /\ UNCHANGED <<groupTasks, backend, groupQueue, members, groupResult,
                   producerLog, groupRunState>>
    /\ UNCHANGED chordVars
    /\ UNCHANGED chainVars
    /\ UNCHANGED eagerVars

\* A worker runs a published celery.chord task: Chord.run with the header, body
\* and args of the message and the defaults interval=1, max_retries=None,
\* propagate=False.
ChordRunPublished ==
    /\ chordQueue # <<>>
    /\ registered = None
    /\ LET m == Head(chordQueue)
       IN  \E submitted \in BOOLEAN :
               ChordRunOn(m.header, m.body, m.args, 1, FALSE, None, submitted)
    /\ chordQueue' = Tail(chordQueue)
    /\ UNCHANGED <<backend, members, producerLog, groupRunState>>
    /\ UNCHANGED <<native, delayed, polls, unready, retried>>
    /\ UNCHANGED chainVars
    /\ UNCHANGED <<chordInput, chordSent, chordReturn>>
    /\ UNCHANGED eagerVars

\* ------------------------------------------------------------- eager execution
\* The task id a caller pre-assigns to member i of a group it runs eagerly.
MemberId(i) == 0 - (CallerGroupId + i)

\* The groups and chord headers a caller runs eagerly: member i increments i.
EagerInputs ==
    UNION {{s \in [1..n -> UNION {{Sig("inc", <<i>>, t) : t \in {None, Some(MemberId(i))}}
                                     : i \in 1..n}] :
                \A i \in 1..n : s[i].args = <<i>>} : n \in 1..MaxEager}

\* Signature.apply(group_id=...): the task runs in the caller's thread under its
\* own task id or a generated one, and the EagerResult holds what it returned.
apply_task(sig, group_id, u) ==
    LET fresh == sig.options.task_id = None
        tid == IF fresh THEN uuid(u + 1) ELSE The(sig.options.task_id)
    IN  [child |-> [id |-> tid, status |-> SUCCESS, value |-> Run(sig, <<>>)],
         executed |-> [task |-> sig.task, args |-> sig.args, task_id |-> tid,
                       group_id |-> group_id],
         u |-> IF fresh THEN u + 1 ELSE u]

\* Group.run, eager: [task.apply(group_id=group_id) for task in taskit].
RECURSIVE apply_members(_, _, _, _)
apply_members(tasks, group_id, partial_args, u) ==
    IF tasks = <<>>
    THEN [children |-> <<>>, executed |-> <<>>, u |-> u]
    ELSE LET a == apply_task(clone(Head(tasks), partial_args), Some(group_id), u)
             rest == apply_members(Tail(tasks), group_id, partial_args, a.u)
         IN  [children |-> <<a.child>> \o rest.children,
              executed |-> <<a.executed>> \o rest.executed,
              u |-> rest.u]

\* A faulty eager Group.run: the members are published, none is run here.
run_eager_published(tasks, result, group_id, partial_args, u) ==
    LET r == run_members(tasks, group_id, partial_args, u)
    IN  [ret |-> [id |-> result.id, results |-> <<>>],
         msgs |-> r.msgs, executed |-> <<>>, u |-> r.u]

\* Group.run when request.is_eager or CELERY_ALWAYS_EAGER holds: every member is
\* applied here, in order, and a GroupResult of the EagerResults is returned.
run_eager(tasks, result, group_id, partial_args, u) ==
    LET a == apply_members(tasks, group_id, partial_args, u)
    IN  [ret |-> [id |-> result.id, results |-> a.children],
         msgs |-> <<>>, executed |-> a.executed, u |-> a.u]

\* Group.apply: prepare, run eagerly, return what Group.run returned.
group_apply(tasks, args, task_id, u) ==
    LET p == prepare(task_id, tasks, args, u)
    IN  run_eager(p.tasks, p.result, p.group_id, p.args, p.u)

\* Group.apply, which is also what Group.apply_async does under
\* CELERY_ALWAYS_EAGER.
GroupApply ==
    /\ eagerState = "IDLE"
    /\ \E tasks \in EagerInputs, args \in {<<>>, <<1>>},
          task_id \in {None, Some(CallerGroupId)} :
          LET r == group_apply(tasks, args, task_id, uuids)
          IN  /\ eagerInput' = Some([op |-> "group", tasks |-> tasks, args |-> args,
                                     task_id |-> task_id, body |-> Body])
              /\ eagerLog' = eagerLog \o r.executed
              /\ members' = members \o r.msgs
              /\ eagerReturn' = Some(r.ret)
              /\ uuids' = r.u
    /\ eagerState' = "DONE"
    /\ UNCHANGED <<groupTasks, backend, groupQueue, groupResult, producerLog,
                   groupRunState>>
    /\ UNCHANGED chordVars
    /\ UNCHANGED chainVars
    /\ UNCHANGED chordCallVars

\* Chord.run with eager=True: tag the header, apply it as a group under the
\* chord's group id, return its GroupResult; on_chord_apply is not reached.
chord_run_eager(header_, body, partial_args, u) ==
    LET group_id == uuid(u + 1)
        t == tag_header(header_, body, group_id, u + 1)
    IN  group_apply(t.tasks, partial_args, Some(group_id), t.u)

\* Chord.apply: Task.apply(args, dict(kwargs, eager=True)) calls
\* run(*args, header=..., body=..., eager=True), so that args which are not
\* empty give run its header twice: a TypeError, which res.get() raises or, with
\* propagate unset, returns as a value that has no get().  Otherwise the body is
\* applied with the list of the header's values as its one argument.
chord_apply(args, header_, body, propagate, u) ==
    IF args # <<>>
    THEN [raised |-> TRUE, ret |-> None, msgs |-> <<>>, executed |-> <<>>, u |-> u]
    ELSE LET res == chord_run_eager(header_, body, <<>>, u)
             values == [i \in 1..Len(res.ret.results) |-> res.ret.results[i].value]
             b == apply_task(clone(body, <<values>>), None, res.u)
         IN  [raised |-> FALSE, ret |-> Some(b.child), msgs |-> res.msgs,
              executed |-> res.executed \o <<b.executed>>, u |-> b.u]

\* Chord.apply, which is also what Chord.apply_async does under
\* CELERY_ALWAYS_EAGER.
ChordApply ==
    /\ eagerState = "IDLE"
    /\ \E tasks \in EagerInputs, args \in {<<>>, <<1>>}, body \in BodyChoices,
          propagate \in BOOLEAN :
          LET r == chord_apply(args, tasks, body, propagate, uuids)
          IN  /\ eagerInput' = Some([op |-> "chord", tasks |-> tasks, args |-> args,
                                     task_id |-> None, body |-> body])
              /\ eagerLog' = eagerLog \o r.executed
              /\ members' = members \o r.msgs
              /\ eagerReturn' = r.ret
              /\ uuids' = r.u
              /\ eagerState' = IF r.raised THEN "RAISED" ELSE "DONE"
    /\ UNCHANGED <<groupTasks, backend, groupQueue, groupResult, producerLog,
                   groupRunState>>
    /\ UNCHANGED chordVars
    /\ UNCHANGED chainVars
    /\ UNCHANGED chordCallVars

\* ------------------------------------------------------------- specifications
Init ==
    /\ uuids = 0
    /\ groupTasks = <<>>
    /\ backend = [id \in IdSpace |-> [status |-> PENDING, result |-> NoResult]]
    /\ groupQueue = <<>>
    /\ members = <<>>
    /\ groupResult = None
    /\ producerLog = <<>>
    /\ groupRunState = "IDLE"
    /\ header = <<>>
    /\ registered = None
    /\ native \in BOOLEAN
    /\ unlockQueue = <<>>
    /\ unlockState = "IDLE"
    /\ delayed = <<>>
    /\ polls = 0
    /\ unready = 0
    /\ retried = 0
    /\ chordLog = <<>>
    /\ chainInput = None
    /\ prepared = [tasks |-> <<>>, results |-> <<>>]
    /\ chainQueue = <<>>
    /\ chainReturn = None
    /\ chainState = "IDLE"
    /\ chordInput = None
    /\ chordQueue = <<>>
    /\ chordSent = <<>>
    /\ chordReturn = None
    /\ eagerInput = None
    /\ eagerLog = <<>>
    /\ eagerReturn = None
    /\ eagerState = "IDLE"

\* A chord on a backend without native chord support.
Next ==
    \/ ChordRun
    \/ GroupRun
    \/ MemberSucceeds
    \/ MemberFails
    \/ UnlockChord

Spec == Init /\ [][Next]_vars

\* A chord with max_retries=None, every scheduled celery.chord_unlock message
\* being eventually run by a worker.
FairNext ==
    \/ ChordRunUnbounded
    \/ GroupRun
    \/ MemberSucceeds
    \/ MemberFails
    \/ UnlockChord

FairSpec == Init /\ [][FairNext]_vars /\ WF_vars(UnlockChord)

\* A group applied on its own.
GroupNext ==
    \/ GroupApplyAsync
    \/ GroupRun
    \/ MemberSucceeds
    \/ MemberFails

GroupSpec == Init /\ [][GroupNext]_vars

\* A group applied on its own through a broker that may fail.
ProducerNext ==
    \/ GroupApplyAsync
    \/ GroupRunFallible

ProducerSpec == Init /\ [][ProducerNext]_vars

\* A chord applied through the broker, on a backend without native chord support.
ChordApplyNext ==
    \/ ChordApplyAsync
    \/ ChordRunPublished
    \/ GroupRun
    \/ MemberSucceeds
    \/ MemberFails
    \/ UnlockChord

ChordApplySpec == Init /\ [][ChordApplyNext]_vars

\* A group or a chord run in the caller's thread.
EagerNext ==
    \/ GroupApply
    \/ ChordApply

EagerSpec == Init /\ [][EagerNext]_vars

\* A chain, applied through the broker or eagerly.
ChainNext ==
    \/ ChainApplyAsync
    \/ ChainApply

ChainSpec == Init /\ [][ChainNext]_vars

\* ------------------------------------------------------------- chord claims
\* The request the chord was registered with (a blank request before Chord.run).
Reg ==
    IF registered = None
    THEN on_chord_apply(uuid(1), Body, 1, None, FALSE, <<>>)
    ELSE The(registered)
\* Every header member has been published and has stored its outcome.
AllReady ==
    /\ header # <<>>
    /\ Len(members) = Len(header)
    /\ \A i \in 1..Len(members) : backend[members[i].task_id].status \in READY_STATES
AnyFailed == \E i \in 1..Len(members) : backend[members[i].task_id].status = FAILURE
\* The outcomes of the header members, in header order.
HeaderResults == [i \in 1..Len(header) |-> backend[members[i].task_id].result]

\* C1: the body is submitted at most once per chord, never while a header member
\* is not ready, and with exactly the list of header results in header order.
C1_BodyOnceWhenReadyInOrder ==
    /\ Len(delayed) <= 1
    /\ delayed # <<>> =>
          /\ AllReady
          /\ delayed[1] = [task |-> Body, args |-> <<HeaderResults>>]

C1_Witness ==
    /\ delayed # <<>>
    /\ Len(header) = 2
    /\ unready >= 1
    /\ header[1].options.task_id = Some(2)
    /\ delayed[1].args[1][1] # delayed[1].args[1][2]

\* C2: with max_retries None and every scheduled poll eventually run, once every
\* header member is ready (and no failure is propagated) the body is eventually
\* submitted, and from then on the detector is DONE with nothing scheduled.
C2_BodyEventuallySubmitted ==
    /\ (registered # None /\ Reg.max_retries = None /\ AllReady
            /\ ~(Reg.propagate /\ AnyFailed)) ~> (delayed # <<>>)
    /\ [](delayed # <<>> => [](unlockState = "DONE" /\ unlockQueue = <<>>))

C2_Witness ==
    /\ delayed # <<>>
    /\ Reg.max_retries = None
    /\ unready = MaxPolls
    /\ unlockState = "DONE"

\* C3: when readiness comes only after K polls, the detector has rescheduled
\* itself exactly K times, every time with countdown = interval and the request
\* it was registered with, and the next poll (poll K, counting from 0) submits the
\* body exactly once.
C3_ExactlyKReschedules ==
    /\ \A k \in 1..Len(unlockQueue) :
          /\ unlockQueue[k].countdown = Reg.interval
          /\ unlockQueue[k].retries = retried
          /\ [unlockQueue[k] EXCEPT !.retries = 0] = Reg
    /\ unlockState = "POLLING" => (Len(unlockQueue) = 1 /\ retried = unready /\ polls = unready)
    /\ unlockState = "DONE" =>
          (retried = unready /\ polls = unready + 1 /\ Len(delayed) = 1)

C3_Witness ==
    /\ unlockState = "DONE"
    /\ unready = 2
    /\ retried = 2
    /\ Reg.interval = 2

\* C4: with max_retries R and a header that is never ready, the detector fails
\* with retries exhausted after exactly R retries (on the poll after the R-th
\* retry), the body is not submitted and nothing is scheduled any more.
C4_ExhaustedAfterRRetries ==
    /\ unlockState = "EXHAUSTED" =>
          /\ Reg.max_retries # None
          /\ retried = The(Reg.max_retries)
          /\ polls = The(Reg.max_retries) + 1
          /\ unready = polls
          /\ delayed = <<>>
          /\ unlockQueue = <<>>
    /\ (registered # None /\ Reg.max_retries # None /\ unready > The(Reg.max_retries))
          => unlockState = "EXHAUSTED"

C4_Witness ==
    /\ unlockState = "EXHAUSTED"
    /\ Reg.max_retries = Some(MaxRetries)
    /\ ~AllReady

\* C5: with propagate set, a failed header member aborts the join: the body is
\* never submitted and the detector does not reschedule itself (retries are spent
\* only on polls that found a member not ready).
C5_PropagatedFailureAborts ==
    /\ (registered # None /\ Reg.propagate /\ AnyFailed) => delayed = <<>>
    /\ retried <= unready
    /\ unlockState = "RAISED" =>
          /\ Reg.propagate /\ AllReady /\ AnyFailed
          /\ unlockQueue = <<>>
          /\ retried = unready

C5_Witness ==
    /\ unlockState = "RAISED"
    /\ unready >= 1
    /\ Len(header) = 2

\* C6: with propagate unset the join never aborts: the body is submitted with the
\* header-ordered list holding each failed member's exception at its position, and
\* the native and the generic join give that same list.
C6_FailureMarkerInPosition ==
    (registered # None /\ ~Reg.propagate) =>
        /\ unlockState # "RAISED"
        /\ unlockState = "DONE" =>
              /\ delayed = <<[task |-> Body, args |->
                     <<[i \in 1..Len(header) |->
                          IF backend[members[i].task_id].status = FAILURE
                          THEN Exc ELSE backend[members[i].task_id].result]>>]>>
              /\ delayed[1].args = <<join(Reg.result, FALSE).value>>
              /\ delayed[1].args = <<join_native(Reg.result, FALSE).value>>

C6_Witness ==
    /\ unlockState = "DONE"
    /\ ~Reg.propagate
    /\ native
    /\ Len(header) = 2
    /\ delayed[1].args[1][1] = Exc
    /\ delayed[1].args[1][2] \in Values

\* ------------------------------------------------------------- group claims
\* C7: the GroupResult returned by Group.apply_async has one child per member
\* signature, and child i is the id under which Group.run publishes member i,
\* whatever the order in which the members complete.
C7_ChildrenMatchSubmissions ==
    groupResult # None =>
        LET res == The(groupResult)
        IN  /\ Len(res.results) = Len(groupTasks)
            /\ groupQueue = <<>> =>
                  /\ Len(members) = Len(groupTasks)
                  /\ \A i \in 1..Len(members) : members[i].task_id = res.results[i]

C7_Witness ==
    /\ groupResult # None
    /\ Len(members) = 2
    /\ groupTasks[1].options.task_id = None
    /\ groupTasks[2].options.task_id = Some(1)
    /\ backend[members[1].task_id].status = PENDING
    /\ backend[members[2].task_id].status = SUCCESS
    /\ The(groupResult).results = <<members[1].task_id, members[2].task_id>>

\* ------------------------------------------------------------- chain claims
ChainIn ==
    IF chainInput = None
    THEN [tasks |-> <<>>, args |-> <<>>, group_id |-> None, chord |-> None,
          task_id |-> None]
    ELSE The(chainInput)

\* Sk(...S2(S1(A))): S1 called with A, every later step with the previous value.
RECURSIVE ManualFrom(_, _)
ManualFrom(tasks, value) ==
    IF tasks = <<>> THEN value
    ELSE ManualFrom(Tail(tasks), Run(Head(tasks), <<value>>))
Manual(tasks, args) == ManualFrom(Tail(tasks), Run(Head(tasks), args))

\* C8: eager execution of a chain S1..Sk (k >= 1) applied with args A returns the
\* value of Sk(...S2(S1(A))).
C8_EagerEqualsManual ==
    (chainState = "APPLIED" /\ ChainIn.tasks # <<>>) =>
        The(chainReturn).value = Manual(ChainIn.tasks, ChainIn.args)

\* What the auto-upgrade rule prescribes for a sequence of steps: a group with a
\* following step becomes a chord whose body is that step, which is consumed;
\* every other step stays what it is.
RECURSIVE Upgraded(_)
Upgraded(steps) ==
    IF steps = <<>> THEN <<>>
    ELSE IF IsGroup(Head(steps)) /\ Len(steps) >= 2
         THEN <<[task |-> "celery.chord", header |-> Some(Head(steps).kwargs.tasks),
                 body |-> Some(steps[2])]>> \o Upgraded(Tail(Tail(steps)))
         ELSE <<[task |-> Head(steps).task, header |-> None, body |-> None]>>
                  \o Upgraded(Tail(steps))
Shape(tasks) ==
    [i \in 1..Len(tasks) |->
        [task |-> tasks[i].task,
         header |-> IF tasks[i].kwargs.header = None THEN None
                    ELSE Some(The(tasks[i].kwargs.header).kwargs.tasks),
         body |-> tasks[i].kwargs.body]]

\* C9: prepare_steps turns a step into a chord exactly when it is a group with a
\* following step, with that step as the body and consumed; a last group and
\* every step that is not a group stay as they are.
C9_AutoUpgradeExact ==
    chainState = "RETURNED" => Shape(prepared.tasks) = Upgraded(ChainIn.tasks)

\* C10: Chain.apply_async, not eager, publishes exactly one message, the first
\* prepared step.
C10_OnlyFirstStepPublished ==
    chainState = "RETURNED" =>
        /\ Len(chainQueue) = 1
        /\ chainQueue[1] = prepared.tasks[1]

C10_Witness ==
    /\ chainState = "RETURNED"
    /\ Len(prepared.tasks) = 3
    /\ Len(chainQueue) = 1
    /\ chainQueue[1].task = "s1"
    /\ chainQueue[1].options.link = <<2>>

\* The task id under which the final unit of work of a prepared chain runs: the
\* last prepared step's own id, or, when that step is a chord, the id
\* Chord.apply_async gives the body when the step is applied.
IsChord(sig) == sig.task = "celery.chord"
FinalTaskId ==
    LET t == prepared.tasks[Len(prepared.tasks)]
    IN  IF IsChord(t)
        THEN chord_apply_async(<<>>, The(t.kwargs.header), The(t.kwargs.body),
                               t.options.task_id, t.options.group_id,
                               t.options.chord, uuids).result.id
        ELSE The(t.options.task_id)

\* C11: the handle Chain.apply_async returns has the task id under which the
\* chain's final unit of work runs (the last prepared step, or the body of the
\* chord it was upgraded to), whatever task_id override and pre-assigned step
\* ids are given.
C11_ReturnedIdIsFinalTaskId ==
    chainState = "RETURNED" => The(chainReturn).id = FinalTaskId

\* What prepare_steps built before Chain.apply_async put the overrides on.
Before == prepare_steps(ChainIn.args, ChainIn.tasks, 0)

\* C12: Chain.apply_async puts the overrides group_id, chord and task_id onto
\* the last prepared step only: every other step is as prepare_steps built it,
\* and an override that is not supplied leaves the last step's option as it was.
C12_OverridesOnLastStepOnly ==
    chainState = "RETURNED" =>
        LET n == Len(prepared.tasks)
            now == prepared.tasks[n]
            was == Before.tasks[n]
        IN  /\ Len(Before.tasks) = n
            /\ \A k \in 1..(n - 1) : prepared.tasks[k] = Before.tasks[k]
            /\ now.options.group_id =
                   IF ChainIn.group_id # None THEN ChainIn.group_id
                   ELSE was.options.group_id
            /\ now.options.chord =
                   IF ChainIn.chord # None THEN ChainIn.chord ELSE was.options.chord
            /\ now.options.task_id =
                   IF ChainIn.task_id # None THEN ChainIn.task_id
                   ELSE was.options.task_id
            /\ now.options.link = was.options.link
            /\ now.task = was.task /\ now.args = was.args /\ now.kwargs = was.kwargs

C12_Witness ==
    /\ chainState = "RETURNED"
    /\ Len(prepared.tasks) = 3
    /\ ChainIn.group_id = Some(CallerGroupId)
    /\ ChainIn.chord = None
    /\ ChainIn.task_id = None
    /\ prepared.tasks[3].options.group_id = Some(CallerGroupId)
    /\ prepared.tasks[3].options.task_id = Some(StepId(3))
    /\ prepared.tasks[2].options.group_id = None

\* The args a prepared step carries: a chord's are those of its header.
StepArgs(t) == IF IsChord(t) THEN The(t.kwargs.header).args ELSE t.args

\* C18: after prepare_steps the task list and the result list are equally long;
\* every prepared step after the first is in the callback list of the step
\* before it, once, and in no other; every result after the first has the
\* result before it as parent; the first step is linked from none and its
\* result has no parent; only the first step has the chain's args prepended.
C18_LinksAndParents ==
    chainState \in {"RETURNED", "RAISED"} =>
        LET n == Len(prepared.tasks)
        IN  /\ Len(prepared.results) = n
            /\ \A k \in 1..n :
                   /\ prepared.tasks[k].options.link = IF k < n THEN <<k + 1>> ELSE <<>>
                   /\ prepared.results[k].parent =
                          IF k = 1 THEN None ELSE Some(prepared.results[k - 1].id)
                   /\ StepArgs(prepared.tasks[k]) = IF k = 1 THEN ChainIn.args ELSE <<>>

C18_Witness ==
    /\ chainState = "RETURNED"
    /\ ChainIn.args = <<1>>
    /\ Len(ChainIn.tasks) = 3
    /\ Len(prepared.tasks) = 3
    /\ prepared.tasks[1].options.link = <<2>>
    /\ prepared.tasks[2].options.link = <<3>>
    /\ prepared.results[3].parent = Some(prepared.results[2].id)
    /\ prepared.tasks[1].args = <<1>>

\* C20: when a chain prepares to two steps or more, the handle Chain.apply_async
\* returns has the handle of the last step's predecessor as parent, whatever
\* overrides are given, an explicit task_id included.
C20_ReturnedParentIsPredecessor ==
    (chainState = "RETURNED" /\ Len(prepared.results) >= 2) =>
        The(chainReturn).parent =
            Some(prepared.results[Len(prepared.results) - 1].id)

\* C13: in a non-eager Chord.run the header is submitted first and the chord is
\* registered with on_chord_apply only after that, so that no completion
\* detector exists for a chord whose header submission failed.
C13_HeaderSubmittedBeforeRegistration ==
    /\ \A i \in 1..Len(chordLog) :
           chordLog[i] = "on_chord_apply" =>
               \E j \in 1..(i - 1) : chordLog[j] = "header"
    /\ (\E i \in 1..Len(chordLog) : chordLog[i] = "header raised") =>
           (registered = None /\ unlockQueue = <<>> /\ polls = 0)

\* C19: in a non-eager Chord.run the group id given to on_chord_apply is the
\* group_id option of every header member and the id of the GroupResult the
\* header's submission returns, and the expected result ids are, position by
\* position, the task ids the header members are submitted under, an id a
\* member had already being reused.
C19_RegistrationMatchesHeader ==
    (registered # None /\ groupResult # None) =>
        /\ Reg.group_id = The(groupResult).id
        /\ Len(Reg.result) = Len(header)
        /\ Reg.result = The(groupResult).results
        /\ \A i \in 1..Len(header) :
               /\ header[i].options.group_id = Some(Reg.group_id)
               /\ header[i].options.task_id = Some(Reg.result[i])
               /\ groupTasks[i].options.task_id # None =>
                      Reg.result[i] = The(groupTasks[i].options.task_id)
        /\ groupQueue = <<>> => Len(members) = Len(header)
        /\ \A i \in 1..Len(members) :
               /\ members[i].task_id = Reg.result[i]
               /\ members[i].group_id = Reg.group_id

C19_Witness ==
    /\ registered # None
    /\ groupResult # None
    /\ Len(members) = 2
    /\ groupTasks[1].options.task_id = Some(2)
    /\ groupTasks[2].options.task_id = None
    /\ members[1].task_id = 2
    /\ Reg.result[1] = 2
    /\ Reg.result[2] = members[2].task_id

\* The arguments Chord.apply_async was called with (blank before the call).
ChordIn ==
    IF chordInput = None
    THEN [header |-> <<>>, body |-> Body, task_id |-> None, group_id |-> None,
          chord |-> None]
    ELSE The(chordInput)

\* C14: a non-eager Chord.apply_async submits exactly one task, the celery.chord
\* task, and returns the body's handle: its id is the body's task_id option
\* (the one the body had, else the task_id given, else a fresh one), the body
\* is later submitted under that id, and its parent is the handle of the
\* submitted celery.chord task.
C14_ReturnsBodyHandle ==
    chordReturn # None =>
        LET r == The(chordReturn)
            own == ChordIn.body.options.task_id
        IN  /\ Len(chordSent) = 1
            /\ chordQueue # <<>> =>
                   /\ chordQueue = chordSent
                   /\ groupQueue = <<>> /\ members = <<>>
                   /\ unlockQueue = <<>> /\ delayed = <<>> /\ chainQueue = <<>>
            /\ r.id = IF own # None THEN The(own)
                      ELSE IF ChordIn.task_id # None THEN The(ChordIn.task_id)
                      ELSE uuid(1)
            /\ chordSent[1].body.options.task_id = Some(r.id)
            /\ r.parent = Some(chordSent[1].task_id)
            /\ r.id # chordSent[1].task_id
            /\ \A k \in 1..Len(delayed) : delayed[k].task.options.task_id = Some(r.id)

C14_Witness ==
    /\ chordReturn # None
    /\ ChordIn.body.options.task_id = Some(CallerBodyId)
    /\ ChordIn.task_id = Some(CallerChordId)
    /\ The(chordReturn).id = CallerBodyId
    /\ Len(delayed) = 1
    /\ delayed[1].task.options.task_id = Some(CallerBodyId)

\* C16: a non-eager Group.run makes all its submissions between one acquisition
\* and one release of one producer, also when a submission fails midway; when
\* taking the producer fails nothing is submitted and the run fails; when the
\* j-th submission fails the run fails, the j-1 members already submitted stay
\* submitted and the members after j are not submitted.
C16_OneProducerNoRollback ==
    groupRunState # "IDLE" =>
        LET n == Len(groupTasks)
            ids == The(groupResult).results
            block(k, failed) ==
                <<"acquire">> \o [i \in 1..k |-> "publish"]
                    \o (IF failed THEN <<"publish raised">> ELSE <<>>) \o <<"release">>
        IN  \/ /\ groupRunState = "DONE"
               /\ producerLog = block(n, FALSE)
               /\ Len(members) = n
               /\ \A i \in 1..n : members[i].task_id = ids[i]
            \/ /\ groupRunState = "RAISED"
               /\ producerLog = <<"acquire raised">>
               /\ members = <<>>
            \/ /\ groupRunState = "RAISED"
               /\ \E j \in 1..n :
                      /\ producerLog = block(j - 1, TRUE)
                      /\ Len(members) = j - 1
                      /\ \A i \in 1..(j - 1) : members[i].task_id = ids[i]

C16_Witness ==
    /\ groupRunState = "RAISED"
    /\ Len(groupTasks) = 2
    /\ Len(members) = 1
    /\ producerLog = <<"acquire", "publish", "publish raised", "release">>

\* The arguments the eager call was made with (blank before the call).
EagerIn ==
    IF eagerInput = None
    THEN [op |-> "none", tasks |-> <<>>, args |-> <<>>, task_id |-> None, body |-> Body]
    ELSE The(eagerInput)
\* What member i of the eager call's group returns.
EagerValue(i) == TaskFn(EagerIn.tasks[i].task, EagerIn.args \o EagerIn.tasks[i].args)
\* Nothing has been handed to the broker.
NothingPublished ==
    /\ members = <<>> /\ groupQueue = <<>> /\ producerLog = <<>>
    /\ chordQueue = <<>> /\ unlockQueue = <<>> /\ chainQueue = <<>> /\ delayed = <<>>

\* C15: an eager Chord.apply runs every header member here before the body
\* starts, runs the body exactly once with the list of the header's results, in
\* order, as its only argument, and never calls on_chord_apply, so that no
\* detector is scheduled.
C15_EagerHeaderThenBodyOnce ==
    (eagerState # "IDLE" /\ EagerIn.op = "chord") =>
        LET n == Len(EagerIn.tasks)
        IN  /\ Len(eagerLog) = n + 1
            /\ \A i \in 1..n :
                   /\ eagerLog[i].task = EagerIn.tasks[i].task
                   /\ eagerLog[i].args = EagerIn.args \o EagerIn.tasks[i].args
            /\ eagerLog[n + 1].task = "body"
            /\ eagerLog[n + 1].args = <<[i \in 1..n |-> EagerValue(i)]>>
            /\ registered = None /\ chordLog = <<>> /\ unlockQueue = <<>>

\* C17: an eager Group publishes nothing and runs its N members here, one after
\* the other in submission order; it returns a GroupResult of N resolved
\* children whose values are in submission order: three increments of 1, 2, 3
\* return 2, 3, 4.
C17_EagerGroupInOrder ==
    (eagerState = "DONE" /\ EagerIn.op = "group") =>
        LET n == Len(EagerIn.tasks)
            r == The(eagerReturn)
        IN  /\ NothingPublished
            /\ Len(eagerLog) = n
            /\ Len(r.results) = n
            /\ \A i \in 1..n :
                   /\ eagerLog[i].task = EagerIn.tasks[i].task
                   /\ eagerLog[i].args = EagerIn.args \o EagerIn.tasks[i].args
                   /\ eagerLog[i].task_id = r.results[i].id
                   /\ r.results[i].status \in READY_STATES
                   /\ r.results[i].value = EagerValue(i)
            /\ (n = 3 /\ EagerIn.args = <<>>) =>
                   [i \in 1..n |-> r.results[i].value] = <<2, 3, 4>>

C17_Witness ==
    /\ eagerState = "DONE"
    /\ EagerIn.op = "group"
    /\ EagerIn.args = <<>>
    /\ Len(eagerLog) = 3
    /\ [i \in 1..3 |-> eagerLog[i].args] = <<(<<1>>), (<<2>>), (<<3>>)>>
    /\ [i \in 1..3 |-> The(eagerReturn).results[i].value] = <<2, 3, 4>>

====
